---- MODULE Spec2Model ----
(***************************************************************************)
(* Model of zoom-rtms/index.js: the session registry (activeConnections),  *)
(* the connection entities, their signaling and media WebSockets, the      *)
(* reconnection timers and the webhook entry points.                       *)
(*                                                                         *)
(* Entities and sockets are numbered in allocation order; a JavaScript     *)
(* reference to one is its number, null/undefined is Null.  Every handler  *)
(* of the source is an operator from a program state record to the program *)
(* state record it leaves behind; an action applies one handler.           *)
(***************************************************************************)
EXTENDS Integers, Sequences, FiniteSets, TLC

VARIABLES
    config,             \* index.js:28  the loaded configuration
    activeConnections,  \* index.js:38  sessionId -> entity (Null: no entry)
    conns,              \* every entity allocated so far (index.js:255-262)
    socks,              \* every WebSocket constructed so far
    timers,             \* pending setTimeout callbacks
    crashed,            \* an exception escaped a handler of the event loop
    hsSeen,             \* history: media endpoints received in status-0 handshake responses, per entity
    last                \* history: the handler that ran last, its input and what it sent

vars == <<config, activeConnections, conns, socks, timers, crashed, hsSeen, last>>

----------------------------------------------------------------------------
(* Bounds of the model *)

MaxConns == 1          \* entities allocated in a run
MaxSocks == 3          \* sockets constructed in a run
MaxTimers == 1         \* timers pending at a time
DupMaxConns == 2       \* entities allocated in a run of SpecDup
MsgMaxSocks == 2       \* sockets constructed in a run of SpecMsg
MaxIdLen == 3          \* characters of an identifier in a run of SpecSig
QuietMaxSocks == 4     \* sockets constructed in a run of SpecQuiet
IsoMaxConns == 2       \* entities allocated in a run of SpecIso
IsoMaxSocks == 2       \* sockets constructed in a run of SpecIso

----------------------------------------------------------------------------
(* Values *)

Null == 0
NoUrl == <<>>
NoSecret == "<undefined>"

AllSessionIds == {"s1", "s2"}
SessionIds == {"s1"}
StreamIds == {"t1"}
SigUrl == <<"w", "s", "s", ":", "z">>
BadUrl == <<"h", "t", "t", "p">>
WsxUrl == <<"w", "s", "x">>
ServerUrls == {SigUrl, BadUrl, WsxUrl, NoUrl}
MediaUrl1 == <<"w", "s", "s", ":", "m", "1">>
MediaUrl2 == <<"w", "s", "s", ":", "m", "2">>
MediaUrls == {MediaUrl1, MediaUrl2, NoUrl}
Secrets == {"sec", NoSecret}
TimeStamps == {1, 2}
Now == 1

CONNECTING == 0
OPEN == 1
CLOSING == 2
CLOSED == 3

(* String.prototype.startsWith *)
startsWith(s, prefix) ==
    /\ Len(s) >= Len(prefix)
    /\ SubSeq(s, 1, Len(prefix)) = prefix

(* the WebSocket constructor accepts the address: it parses as a URL with  *)
(* the ws: or wss: scheme; the constructor throws on any other             *)
ValidUrl(u) == startsWith(u, <<"w", "s", ":">>) \/ startsWith(u, <<"w", "s", "s", ":">>)

----------------------------------------------------------------------------
(* Inbound frames.  A frame is the raw text; JSONparse tells whether it    *)
(* parses and to what.                                                     *)

Frame(text, t, status, url, state, reason, ts) ==
    [text |-> text, msg_type |-> t, status_code |-> status, media_url |-> url,
     state |-> state, reason |-> reason, timestamp |-> ts]

Malformed == Frame("malformed", 0, 0, NoUrl, 0, 0, 0)
JsonNull == Frame("null", 0, 0, NoUrl, 0, 0, 0)
NoFrame == Frame("none", 0, 0, NoUrl, 0, 0, 0)
Obj(t, status, url, state, reason, ts) == Frame("object", t, status, url, state, reason, ts)

(* Spec, SpecDup: the frames that move the connection state machine, and  *)
(* the two stream-state pairs next to the terminal one                     *)
LifeSignalingFrames ==
    {Obj(2, 0, MediaUrl1, 0, 0, 0), Obj(2, 0, NoUrl, 0, 0, 0),
     Obj(8, 0, NoUrl, 4, 6, 0), Obj(8, 0, NoUrl, 3, 6, 0), Obj(8, 0, NoUrl, 4, 5, 0)}

LifeMediaFrames == {Obj(4, 0, NoUrl, 0, 0, 0)}

(* SpecUrl: handshake responses that carry different media endpoints *)
UrlSignalingFrames == {Obj(2, 0, u, 0, 0, 0) : u \in {MediaUrl1, MediaUrl2}}

(* SpecMsg: every kind of frame a handler tells apart, but the terminal one *)
SignalingFrames ==
    {Malformed, JsonNull}
    \cup {Obj(2, 0, u, 0, 0, 0) : u \in {MediaUrl1, NoUrl}}
    \cup {Obj(2, 1, MediaUrl1, 0, 0, 0)}
    \cup {Obj(12, 0, NoUrl, 0, 0, ts) : ts \in TimeStamps}
    \cup {Obj(99, 0, NoUrl, 0, 0, 0)}

MediaFrames ==
    {Malformed, JsonNull}
    \cup {Obj(4, st, NoUrl, 0, 0, 0) : st \in {0, 1}}
    \cup {Obj(12, 0, NoUrl, 0, 0, ts) : ts \in TimeStamps}
    \cup {Obj(99, 0, NoUrl, 0, 0, 0)}

(* JSON.parse: throws on text that is not JSON *)
JSONparse(data) ==
    [throws |-> data.text = "malformed",
     isNull |-> data.text = "null",
     value |-> data]

----------------------------------------------------------------------------
(* Outbound messages *)

OutMsg(t, sid, stid, sig, ts, mt, ev) ==
    [msg_type |-> t, meeting_uuid |-> sid, session_id |-> sid,
     rtms_stream_id |-> stid, signature |-> sig, timestamp |-> ts,
     media_type |-> mt, events |-> ev]

SignalingHandshakeReq(sid, stid, sig) == OutMsg(1, sid, stid, sig, 0, 0, <<>>)
DataHandshakeReq(sid, stid, sig) == OutMsg(3, sid, stid, sig, 0, 32, <<>>)
EventSubscribe == OutMsg(5, "", "", "", 0, 0, <<2, 3, 4>>)
StreamStartReq(stid) == OutMsg(7, "", stid, "", 0, 0, <<>>)
KeepAliveRespBadTs(ts) == OutMsg(13, "", "", "", Now, 0, <<>>)
KeepAliveResp(ts) == OutMsg(13, "", "", "", ts, 0, <<>>)

(* the message the signature is computed over, index.js:47 *)
signatureMessage(sessionId, streamId) ==
    config.clientId \o "," \o sessionId \o "," \o streamId

(* crypto.createHmac(...).update(message).digest('hex'), as an injective   *)
(* function of key and message                                             *)
generateSignature(sessionId, streamId) ==
    "hmac[" \o config.clientSecret \o "](" \o signatureMessage(sessionId, streamId) \o ")"

(* createHmac throws when the key is undefined *)
generateSignatureThrows == config.clientSecret = NoSecret

----------------------------------------------------------------------------
(* The program state a handler works on *)

S == [activeConnections |-> activeConnections, conns |-> conns, socks |-> socks,
      timers |-> timers, hsSeen |-> hsSeen, out |-> <<>>, thrown |-> FALSE]

Throw(st) == [st EXCEPT !.thrown = TRUE]

newConn(sessionId, streamId, serverUrls) ==
    [sessionId |-> sessionId, streamId |-> streamId, serverUrls |-> serverUrls,
     shouldReconnect |-> TRUE,
     signaling |-> [socket |-> Null, state |-> "connecting", lastKeepAlive |-> Null],
     media |-> [socket |-> Null, state |-> "idle", lastKeepAlive |-> Null]]

(* new WebSocket(url, ...) together with the variables its handlers close over *)
newWebSocket(chan, url, c, sessionId, streamId, signalingSocket) ==
    [chan |-> chan, url |-> url, conn |-> c, sessionId |-> sessionId,
     streamId |-> streamId, signalingSocket |-> signalingSocket,
     readyState |-> CONNECTING,
     rx |-> TRUE,               \* the transport may still deliver frames
     onceOpenClose |-> FALSE]   \* ws.once('open', () => ws.close()) is registered

(* ws.close(): nothing on a closed socket; a connecting socket aborts its  *)
(* handshake; an open one starts the closing handshake and still receives  *)
close(st, s) ==
    LET rs == st.socks[s].readyState IN
    IF rs = CLOSED THEN st
    ELSE IF rs = CONNECTING
         THEN [st EXCEPT !.socks[s].readyState = CLOSING, !.socks[s].rx = FALSE]
         ELSE [st EXCEPT !.socks[s].readyState = CLOSING]

(* ws.send(data): throws on a socket that is still connecting; otherwise   *)
(* the message is handed to the socket                                     *)
send(st, s, msg) ==
    IF st.socks[s].readyState = CONNECTING
    THEN Throw(st)
    ELSE [st EXCEPT !.out = Append(@, [sock |-> s, msg |-> msg])]

----------------------------------------------------------------------------
(* connectToMediaWebSocket, index.js:149-154: construct the socket and     *)
(* store it in the media handle.  The constructor throws on an address     *)
(* that is no URL.                                                         *)

connectToMediaWebSocketRevive(st, mediaUrl, sessionId, streamId, signalingSocket, c) ==
    IF ~ValidUrl(mediaUrl)
    THEN Throw(st)
    ELSE LET mediaWs == Len(st.socks) + 1 IN
         [st EXCEPT !.socks = Append(@, newWebSocket("media", mediaUrl, c, sessionId,
                                                     streamId, signalingSocket)),
                    !.conns[c].shouldReconnect = TRUE,
                    !.conns[c].media.socket = mediaWs,
                    !.conns[c].media.state = "connecting"]

connectToMediaWebSocket(st, mediaUrl, sessionId, streamId, signalingSocket, c) ==
    IF ~ValidUrl(mediaUrl)
    THEN Throw(st)
    ELSE LET mediaWs == Len(st.socks) + 1 IN
         [st EXCEPT !.socks = Append(@, newWebSocket("media", mediaUrl, c, sessionId,
                                                     streamId, signalingSocket)),
                    !.conns[c].media.socket = mediaWs,
                    !.conns[c].media.state = "connecting"]

(* connectToSignalingWebSocket, index.js:244-269.  An address that passes  *)
(* the prefix test and is no ws: URL makes the constructor throw.          *)
connectToSignalingWebSocketAbsentOnly(st, sessionId, streamId, serverUrls, existingConn) ==
    IF serverUrls = NoUrl
    THEN st
    ELSE IF ~ValidUrl(serverUrls)
    THEN Throw(st)
    ELSE LET signalingWs == Len(st.socks) + 1
             c == IF existingConn # Null THEN existingConn ELSE Len(st.conns) + 1
             st1 == [st EXCEPT !.socks = Append(@, newWebSocket("signaling", serverUrls, c,
                                                                sessionId, streamId, Null))]
             st2 == IF existingConn = Null
                    THEN [st1 EXCEPT !.conns = Append(@, newConn(sessionId, streamId, serverUrls)),
                                     !.hsSeen = Append(@, {}),
                                     !.activeConnections[sessionId] = c]
                    ELSE st1
         IN [st2 EXCEPT !.conns[c].signaling.socket = signalingWs,
                        !.conns[c].signaling.state = "connecting"]

connectToSignalingWebSocket(st, sessionId, streamId, serverUrls, existingConn) ==
    IF serverUrls = NoUrl \/ ~startsWith(serverUrls, <<"w", "s">>)
    THEN st
    ELSE IF ~ValidUrl(serverUrls)
    THEN Throw(st)
    ELSE LET signalingWs == Len(st.socks) + 1
             c == IF existingConn # Null THEN existingConn ELSE Len(st.conns) + 1
             st1 == [st EXCEPT !.socks = Append(@, newWebSocket("signaling", serverUrls, c,
                                                                sessionId, streamId, Null))]
             st2 == IF existingConn = Null
                    THEN [st1 EXCEPT !.conns = Append(@, newConn(sessionId, streamId, serverUrls)),
                                     !.hsSeen = Append(@, {}),
                                     !.activeConnections[sessionId] = c]
                    ELSE st1
         IN [st2 EXCEPT !.conns[c].signaling.socket = signalingWs,
                        !.conns[c].signaling.state = "connecting"]

(* cleanupConnection, index.js:401-411: one round of the loop over the two *)
(* channels                                                                *)
cleanupChannel(st, c, type) ==
    LET ws == st.conns[c][type].socket IN
    IF ws = Null
    THEN st
    ELSE LET st1 == [st EXCEPT !.conns[c][type].state = "closed"] IN
         IF st1.socks[ws].readyState = CONNECTING
         THEN [st1 EXCEPT !.socks[ws].onceOpenClose = TRUE]
         ELSE close(st1, ws)

(* cleanupConnection, index.js:394-414 *)
cleanupConnectionAnySession(st, sessionId) ==
    LET ids == {id \in AllSessionIds : st.activeConnections[id] # Null} IN
    IF ids = {}
    THEN st
    ELSE LET id == CHOOSE x \in ids : TRUE
             c == st.activeConnections[id]
             st1 == [st EXCEPT !.conns[c].shouldReconnect = FALSE]
             st2 == cleanupChannel(st1, c, "signaling")
             st3 == cleanupChannel(st2, c, "media")
         IN [st3 EXCEPT !.activeConnections[id] = Null]

cleanupConnection(st, sessionId) ==
    LET c == st.activeConnections[sessionId] IN
    IF c = Null
    THEN st
    ELSE LET st1 == [st EXCEPT !.conns[c].shouldReconnect = FALSE]
             st2 == cleanupChannel(st1, c, "signaling")
             st3 == cleanupChannel(st2, c, "media")
         IN [st3 EXCEPT !.activeConnections[sessionId] = Null]

----------------------------------------------------------------------------
(* Handlers of the signaling socket *)

(* signalingWs.on('open'), index.js:271-290 *)
signalingOnOpen(st, s) ==
    LET c == st.socks[s].conn
        sessionId == st.socks[s].sessionId
        streamId == st.socks[s].streamId
    IN IF ~st.conns[c].shouldReconnect
       THEN close(st, s)
       ELSE IF generateSignatureThrows
            THEN Throw(st)
            ELSE LET st1 == send(st, s, SignalingHandshakeReq(sessionId, streamId,
                                            generateSignature(sessionId, streamId)))
                 IN IF st1.thrown THEN st1
                    ELSE [st1 EXCEPT !.conns[c].signaling.state = "authenticated"]

(* the terminal (state, reason) pair of STREAM_STATE_CHANGED, index.js:348 *)
SessionEndedAnyState(msg) == msg.reason = 6
SessionEnded(msg) == msg.reason = 6 /\ msg.state = 4

(* signalingWs.on('message'), the switch on msg.msg_type, index.js:301-369 *)
signalingDispatch(st, s, msg) ==
    LET c == st.socks[s].conn
        sessionId == st.socks[s].sessionId
        streamId == st.socks[s].streamId
    IN CASE msg.msg_type = 2 ->
              IF msg.status_code = 0
              THEN LET mediaUrl == msg.media_url
                       st1 == [st EXCEPT !.conns[c].signaling.state = "ready",
                                         !.hsSeen[c] = @ \cup {mediaUrl}]
                       st2 == connectToMediaWebSocket(st1, mediaUrl, sessionId, streamId, s, c)
                   IN IF st2.thrown THEN st2 ELSE send(st2, s, EventSubscribe)
              ELSE st
         [] msg.msg_type = 8 ->
              IF SessionEnded(msg) THEN cleanupConnection(st, sessionId) ELSE st
         [] msg.msg_type = 12 ->
              send([st EXCEPT !.conns[c].signaling.lastKeepAlive = Now], s,
                   KeepAliveResp(msg.timestamp))
         [] OTHER -> st

(* signalingWs.on('message'), index.js:292-370.  A frame that parses to    *)
(* null makes msg.msg_type throw outside the try block.                    *)
signalingOnMessageNoCatch(st, s, data) ==
    LET p == JSONparse(data) IN
    IF p.throws \/ p.isNull THEN Throw(st)
    ELSE signalingDispatch(st, s, p.value)

signalingOnMessage(st, s, data) ==
    LET p == JSONparse(data) IN
    IF p.throws THEN st
    ELSE IF p.isNull THEN Throw(st)
    ELSE signalingDispatch(st, s, p.value)

(* signalingWs.on('close'), index.js:372-384 *)
signalingOnClose(st, s) ==
    LET c == st.socks[s].conn
        st1 == [st EXCEPT !.conns[c].signaling.state = "closed"]
    IN IF st1.conns[c].shouldReconnect
       THEN [st1 EXCEPT !.timers = Append(@, [kind |-> "signaling", conn |-> c,
                                              sessionId |-> st.socks[s].sessionId,
                                              streamId |-> st.socks[s].streamId,
                                              mediaUrl |-> NoUrl])]
       ELSE st1

(* signalingWs.on('error'), index.js:386-389 *)
signalingOnError(st, s) ==
    [st EXCEPT !.conns[st.socks[s].conn].signaling.state = "error"]

(* the setTimeout callback of the signaling close handler, index.js:378-382 *)
signalingTimerNoCheck(st, t) ==
    connectToSignalingWebSocket(st, t.sessionId, t.streamId,
                                st.conns[t.conn].serverUrls, t.conn)

signalingTimer(st, t) ==
    IF st.conns[t.conn].shouldReconnect
    THEN connectToSignalingWebSocket(st, t.sessionId, t.streamId,
                                     st.conns[t.conn].serverUrls, t.conn)
    ELSE st

----------------------------------------------------------------------------
(* Handlers of the media socket *)

(* mediaWs.on('open'), index.js:156-206 *)
mediaOnOpenNoGuard(st, s) ==
    LET c == st.socks[s].conn
        sessionId == st.socks[s].sessionId
        streamId == st.socks[s].streamId
    IN IF generateSignatureThrows
       THEN Throw(st)
       ELSE LET st1 == send(st, s, DataHandshakeReq(sessionId, streamId,
                                       generateSignature(sessionId, streamId)))
            IN IF st1.thrown THEN st1
               ELSE [st1 EXCEPT !.conns[c].media.state = "authenticated"]

mediaOnOpen(st, s) ==
    LET c == st.socks[s].conn
        sessionId == st.socks[s].sessionId
        streamId == st.socks[s].streamId
    IN IF ~st.conns[c].shouldReconnect
       THEN close(st, s)
       ELSE IF generateSignatureThrows
            THEN Throw(st)
            ELSE LET st1 == send(st, s, DataHandshakeReq(sessionId, streamId,
                                            generateSignature(sessionId, streamId)))
                 IN IF st1.thrown THEN st1
                    ELSE [st1 EXCEPT !.conns[c].media.state = "authenticated"]

(* handleMediaMessage, the switch on msg.msg_type, index.js:64-141 *)
mediaDispatchAnyStatus(st, s, msg) ==
    LET c == st.socks[s].conn
        signalingSocket == st.socks[s].signalingSocket
        streamId == st.socks[s].streamId
    IN CASE msg.msg_type = 4 ->
              LET st1 == send(st, signalingSocket, StreamStartReq(streamId))
              IN IF st1.thrown THEN st1
                 ELSE [st1 EXCEPT !.conns[c].media.state = "streaming"]
         [] msg.msg_type = 12 ->
              send(st, s, KeepAliveResp(msg.timestamp))
         [] OTHER -> st

mediaDispatch(st, s, msg) ==
    LET c == st.socks[s].conn
        signalingSocket == st.socks[s].signalingSocket
        streamId == st.socks[s].streamId
    IN CASE msg.msg_type = 4 ->
              IF msg.status_code = 0
              THEN LET st1 == send(st, signalingSocket, StreamStartReq(streamId))
                   IN IF st1.thrown THEN st1
                      ELSE [st1 EXCEPT !.conns[c].media.state = "streaming"]
              ELSE st
         [] msg.msg_type = 12 ->
              send(st, s, KeepAliveResp(msg.timestamp))
         [] OTHER -> st

(* handleMediaMessage, index.js:60-145: everything runs inside try/catch *)
handleMediaMessage(st, s, data) ==
    LET p == JSONparse(data) IN
    IF p.throws \/ p.isNull
    THEN st
    ELSE LET st1 == mediaDispatch(st, s, p.value) IN
         [st1 EXCEPT !.thrown = FALSE]

(* the condition of the media close handler, index.js:225 *)
signalingAliveStateOnly(st, c) ==
    st.conns[c].signaling.state = "ready"

signalingAlive(st, c) ==
    /\ st.conns[c].signaling.state = "ready"
    /\ st.conns[c].signaling.socket # Null
    /\ st.socks[st.conns[c].signaling.socket].readyState = OPEN

(* mediaWs.on('close'), index.js:218-234 *)
mediaOnClose(st, s) ==
    LET c == st.socks[s].conn
        st1 == [st EXCEPT !.conns[c].media.state = "closed"]
    IN IF ~st1.conns[c].shouldReconnect
       THEN st1
       ELSE IF signalingAlive(st1, c)
            THEN [st1 EXCEPT !.timers = Append(@, [kind |-> "media", conn |-> c,
                                                   sessionId |-> st.socks[s].sessionId,
                                                   streamId |-> st.socks[s].streamId,
                                                   mediaUrl |-> st.socks[s].url])]
            ELSE connectToSignalingWebSocket(st1, st.socks[s].sessionId, st.socks[s].streamId,
                                             st1.conns[c].serverUrls, c)

(* mediaWs.on('error'), index.js:236-239 *)
mediaOnError(st, s) ==
    [st EXCEPT !.conns[st.socks[s].conn].media.state = "error"]

(* the address the media reconnect timer connects to, index.js:228 *)
mediaTimerUrlFromConn(st, t) == st.conns[t.conn].serverUrls
mediaTimerUrl(st, t) == t.mediaUrl

(* the setTimeout callback of the media close handler, index.js:227-229 *)
mediaTimer(st, t) ==
    connectToMediaWebSocket(st, mediaTimerUrl(st, t), t.sessionId, t.streamId,
                            st.conns[t.conn].signaling.socket, t.conn)

(* the SIGINT handler's loop, index.js:498-500 *)
RECURSIVE cleanupAll(_, _)
cleanupAll(st, ids) ==
    IF ids = {} THEN st
    ELSE LET id == CHOOSE x \in ids : TRUE IN
         cleanupAll(cleanupConnection(st, id), ids \ {id})

----------------------------------------------------------------------------
(* The state machine *)

Init ==
    /\ config \in [clientId : {"cid"}, clientSecret : Secrets]
    /\ activeConnections = [id \in AllSessionIds |-> Null]
    /\ conns = <<>>
    /\ socks = <<>>
    /\ timers = <<>>
    /\ crashed = FALSE
    /\ hsSeen = <<>>
    /\ last = [op |-> "init", sock |-> Null, conn |-> Null, sessionId |-> "",
               frame |-> NoFrame, out |-> <<>>, acted |-> FALSE]

Event(op, s, c, sessionId, frame, st) ==
    [op |-> op, sock |-> s, conn |-> c, sessionId |-> sessionId, frame |-> frame,
     out |-> st.out,
     acted |-> (\/ st.activeConnections # activeConnections
                \/ st.conns # conns
                \/ st.socks # socks
                \/ st.timers # timers)]

Bounds == [conns |-> MaxConns, socks |-> MaxSocks, timers |-> MaxTimers]
DupBounds == [conns |-> DupMaxConns, socks |-> MaxSocks, timers |-> MaxTimers]
MsgBounds == [conns |-> MaxConns, socks |-> MsgMaxSocks, timers |-> MaxTimers]
QuietBounds == [conns |-> MaxConns, socks |-> QuietMaxSocks, timers |-> MaxTimers]
IsoBounds == [conns |-> IsoMaxConns, socks |-> IsoMaxSocks, timers |-> MaxTimers]

(* the state a handler leaves behind.  An exception that escapes a handler *)
(* of the event loop is an uncaught exception: the process ends and its    *)
(* memory, sockets and timers go with it.                                  *)
Commit(b, st, ev) ==
    /\ Len(st.conns) <= b.conns
    /\ Len(st.socks) <= b.socks
    /\ Len(st.timers) <= b.timers
    /\ IF st.thrown
       THEN /\ crashed' = TRUE
            /\ activeConnections' = [id \in AllSessionIds |-> Null]
            /\ conns' = <<>>
            /\ socks' = <<>>
            /\ timers' = <<>>
            /\ hsSeen' = <<>>
       ELSE /\ crashed' = FALSE
            /\ activeConnections' = st.activeConnections
            /\ conns' = st.conns
            /\ socks' = st.socks
            /\ timers' = st.timers
            /\ hsSeen' = st.hsSeen
    /\ last' = ev
    /\ UNCHANGED config

RemoveAt(seq, i) == SubSeq(seq, 1, i - 1) \o SubSeq(seq, i + 1, Len(seq))

(* POST webhook, session.rtms_started, index.js:457-462.  An exception of  *)
(* a route handler is caught by the router and ends the request only.      *)
Start(b, sessionId, streamId, serverUrls) ==
    /\ ~crashed
    /\ LET st0 == connectToSignalingWebSocket(S, sessionId, streamId, serverUrls, Null)
           st == [st0 EXCEPT !.thrown = FALSE]
       IN Commit(b, st, Event("start", Null, Null, sessionId, NoFrame, st))

(* POST webhook, session.rtms_stopped, index.js:465-470 *)
Stop(b, sessionId) ==
    /\ ~crashed
    /\ LET st == cleanupConnection(S, sessionId)
       IN Commit(b, st, Event("stop", Null, Null, sessionId, NoFrame, st))

(* SIGINT, index.js:496-500 *)
Shutdown(b) ==
    /\ ~crashed
    /\ \E id \in AllSessionIds : activeConnections[id] # Null
    /\ LET st == cleanupAll(S, AllSessionIds)
       IN Commit(b, st, Event("shutdown", Null, Null, "", NoFrame, st))

(* the 'open' event of a socket: the handler of the connect function runs  *)
(* first, then the once('open') listener of cleanupConnection              *)
SockOpen(b, s) ==
    /\ ~crashed
    /\ socks[s].readyState = CONNECTING
    /\ LET st0 == [S EXCEPT !.socks[s].readyState = OPEN]
           st1 == IF socks[s].chan = "signaling" THEN signalingOnOpen(st0, s)
                  ELSE mediaOnOpen(st0, s)
           st2 == IF ~st1.thrown /\ st1.socks[s].onceOpenClose THEN close(st1, s) ELSE st1
       IN Commit(b, st2, Event("open", s, socks[s].conn, socks[s].sessionId, NoFrame, st2))

(* the 'message' event of a socket *)
SockMessage(b, s, data) ==
    /\ ~crashed
    /\ socks[s].readyState \in {OPEN, CLOSING}
    /\ socks[s].rx
    /\ LET st == IF socks[s].chan = "signaling" THEN signalingOnMessage(S, s, data)
                 ELSE handleMediaMessage(S, s, data)
       IN Commit(b, st, Event("message", s, socks[s].conn, socks[s].sessionId, data, st))

(* the peer's close frame arrives: the socket is CLOSING until the         *)
(* connection is gone; no handler of the program runs                      *)
PeerClose(b, s) ==
    /\ ~crashed
    /\ socks[s].readyState = OPEN
    /\ LET st == [S EXCEPT !.socks[s].readyState = CLOSING, !.socks[s].rx = FALSE]
       IN Commit(b, st, Event("peerclose", s, socks[s].conn, socks[s].sessionId, NoFrame, st))

(* the 'error' event of a socket.  A connection attempt that fails emits   *)
(* 'error' and 'close' back to back; an error on an open socket leaves it  *)
(* CLOSING and its 'close' event follows later.                            *)
SockError(b, s) ==
    /\ ~crashed
    /\ socks[s].readyState \in {CONNECTING, OPEN}
    /\ LET failed == socks[s].readyState = CONNECTING
           st0 == [S EXCEPT !.socks[s].readyState = CLOSING, !.socks[s].rx = FALSE]
           st1 == IF socks[s].chan = "signaling" THEN signalingOnError(st0, s)
                  ELSE mediaOnError(st0, s)
           st2 == [st1 EXCEPT !.socks[s].readyState = CLOSED]
           st == IF ~failed THEN st1
                 ELSE IF socks[s].chan = "signaling" THEN signalingOnClose(st2, s)
                 ELSE mediaOnClose(st2, s)
       IN Commit(b, st, Event("error", s, socks[s].conn, socks[s].sessionId, NoFrame, st))

(* the 'close' event of a socket *)
SockClose(b, s) ==
    /\ ~crashed
    /\ socks[s].readyState \in {OPEN, CLOSING}
    /\ LET st0 == [S EXCEPT !.socks[s].readyState = CLOSED, !.socks[s].rx = FALSE]
           st == IF socks[s].chan = "signaling" THEN signalingOnClose(st0, s)
                 ELSE mediaOnClose(st0, s)
       IN Commit(b, st, Event("close", s, socks[s].conn, socks[s].sessionId, NoFrame, st))

(* a reconnection timer fires *)
TimerFire(b, i) ==
    /\ ~crashed
    /\ LET t == timers[i]
           st0 == [S EXCEPT !.timers = RemoveAt(@, i)]
           st == IF t.kind = "signaling" THEN signalingTimer(st0, t) ELSE mediaTimer(st0, t)
       IN Commit(b, st, Event(IF t.kind = "signaling" THEN "signalingTimer" ELSE "mediaTimer",
                              Null, t.conn, t.sessionId, NoFrame, st))

(* Spec: the life cycle of one entity under the frames that move it *)
Next ==
    \/ \E id \in SessionIds, t \in StreamIds, u \in ServerUrls : Start(Bounds, id, t, u)
    \/ \E id \in SessionIds : Stop(Bounds, id)
    \/ Shutdown(Bounds)
    \/ \E s \in 1..Len(socks) : SockOpen(Bounds, s)
    \/ \E s \in 1..Len(socks) :
          \E data \in (IF socks[s].chan = "signaling" THEN LifeSignalingFrames
                       ELSE LifeMediaFrames) :
             SockMessage(Bounds, s, data)
    \/ \E s \in 1..Len(socks) : PeerClose(Bounds, s)
    \/ \E s \in 1..Len(socks) : SockError(Bounds, s)
    \/ \E s \in 1..Len(socks) : SockClose(Bounds, s)
    \/ \E i \in 1..Len(timers) : TimerFire(Bounds, i)

Spec == Init /\ [][Next]_vars

(* SpecDup: as Spec, with room for a second start of the session id *)
NextDup ==
    \/ \E id \in SessionIds, t \in StreamIds, u \in ServerUrls : Start(DupBounds, id, t, u)
    \/ \E id \in SessionIds : Stop(DupBounds, id)
    \/ Shutdown(DupBounds)
    \/ \E s \in 1..Len(socks) : SockOpen(DupBounds, s)
    \/ \E s \in 1..Len(socks) :
          \E data \in (IF socks[s].chan = "signaling" THEN LifeSignalingFrames
                       ELSE LifeMediaFrames) :
             SockMessage(DupBounds, s, data)
    \/ \E s \in 1..Len(socks) : PeerClose(DupBounds, s)
    \/ \E s \in 1..Len(socks) : SockError(DupBounds, s)
    \/ \E s \in 1..Len(socks) : SockClose(DupBounds, s)
    \/ \E i \in 1..Len(timers) : TimerFire(DupBounds, i)

SpecDup == Init /\ [][NextDup]_vars

(* SpecUrl: connects, closes, reconnection timers and stops of a session   *)
(* whose handshake responses name different media endpoints                *)
NextUrl ==
    \/ \E id \in SessionIds, t \in StreamIds : Start(Bounds, id, t, SigUrl)
    \/ \E id \in SessionIds : Stop(Bounds, id)
    \/ \E s \in 1..Len(socks) : SockOpen(Bounds, s)
    \/ \E s \in 1..Len(socks) :
          \E data \in (IF socks[s].chan = "signaling" THEN UrlSignalingFrames
                       ELSE LifeMediaFrames) :
             SockMessage(Bounds, s, data)
    \/ \E s \in 1..Len(socks) : SockClose(Bounds, s)
    \/ \E i \in 1..Len(timers) : TimerFire(Bounds, i)

SpecUrl == Init /\ [][NextUrl]_vars

(* SpecMsg: one signaling and one media socket under every kind of frame *)
NextMsg ==
    \/ \E id \in SessionIds, t \in StreamIds, u \in ServerUrls : Start(MsgBounds, id, t, u)
    \/ \E id \in SessionIds : Stop(MsgBounds, id)
    \/ Shutdown(MsgBounds)
    \/ \E s \in 1..Len(socks) : SockOpen(MsgBounds, s)
    \/ \E s \in 1..Len(socks) :
          \E data \in (IF socks[s].chan = "signaling" THEN SignalingFrames
                       ELSE MediaFrames) :
             SockMessage(MsgBounds, s, data)
    \/ \E s \in 1..Len(socks) : PeerClose(MsgBounds, s)
    \/ \E s \in 1..Len(socks) : SockError(MsgBounds, s)
    \/ \E s \in 1..Len(socks) : SockClose(MsgBounds, s)
    \/ \E i \in 1..Len(timers) : TimerFire(MsgBounds, i)

SpecMsg == Init /\ [][NextMsg]_vars

(* SpecLive: connects, handshakes, closes and stops of a session; a timer  *)
(* that is pending fires when its delay has elapsed (setTimeout,           *)
(* index.js:227 and 378)                                                   *)
NextLive ==
    \/ \E id \in SessionIds, t \in StreamIds : Start(Bounds, id, t, SigUrl)
    \/ \E id \in SessionIds : Stop(Bounds, id)
    \/ \E s \in 1..Len(socks) : SockOpen(Bounds, s)
    \/ \E s \in 1..Len(socks) :
          socks[s].chan = "signaling" /\ SockMessage(Bounds, s, Obj(2, 0, MediaUrl1, 0, 0, 0))
    \/ \E s \in 1..Len(socks) : SockClose(Bounds, s)
    \/ \E i \in 1..Len(timers) : TimerFire(Bounds, i)

SpecLive ==
    /\ Init
    /\ [][NextLive]_vars
    /\ WF_vars(\E i \in 1..Len(timers) : TimerFire(Bounds, i))

(* SpecQuiet: as SpecLive, with a transport that completes every pending   *)
(* open and every close that has begun, and timers that fire               *)
NextQuiet ==
    \/ \E id \in SessionIds, t \in StreamIds : Start(QuietBounds, id, t, SigUrl)
    \/ \E id \in SessionIds : Stop(QuietBounds, id)
    \/ \E s \in 1..Len(socks) : SockOpen(QuietBounds, s)
    \/ \E s \in 1..Len(socks) :
          socks[s].chan = "signaling" /\ SockMessage(QuietBounds, s, Obj(2, 0, MediaUrl1, 0, 0, 0))
    \/ \E s \in 1..Len(socks) : SockClose(QuietBounds, s)
    \/ \E i \in 1..Len(timers) : TimerFire(QuietBounds, i)

SpecQuiet ==
    /\ Init
    /\ [][NextQuiet]_vars
    /\ WF_vars(\E s \in 1..Len(socks) : SockOpen(QuietBounds, s))
    /\ WF_vars(\E s \in 1..Len(socks) :
                  socks[s].readyState = CLOSING /\ SockClose(QuietBounds, s))
    /\ WF_vars(\E i \in 1..Len(timers) : TimerFire(QuietBounds, i))

(* SpecIso: two sessions side by side, with their connects, handshakes,    *)
(* terminal stream states, closes, timers and stops                        *)
NextIso ==
    \/ \E id \in AllSessionIds, t \in StreamIds : Start(IsoBounds, id, t, SigUrl)
    \/ \E id \in AllSessionIds : Stop(IsoBounds, id)
    \/ \E s \in 1..Len(socks) : SockOpen(IsoBounds, s)
    \/ \E s \in 1..Len(socks) :
          \E data \in {Obj(2, 0, MediaUrl1, 0, 0, 0), Obj(8, 0, NoUrl, 4, 6, 0)} :
             socks[s].chan = "signaling" /\ SockMessage(IsoBounds, s, data)
    \/ \E s \in 1..Len(socks) : SockClose(IsoBounds, s)
    \/ \E i \in 1..Len(timers) : TimerFire(IsoBounds, i)

SpecIso == Init /\ [][NextIso]_vars

(* SpecSig: generateSignature applied to identifiers over a letter and the *)
(* comma, as the open handlers apply it when they build the handshake      *)
(* request (index.js:277-285)                                              *)
RECURSIVE IdsOfLen(_)
IdsOfLen(n) ==
    IF n = 1 THEN {"a", ","}
    ELSE {x \o y : x \in IdsOfLen(n - 1), y \in {"a", ","}}

SigIds == UNION {IdsOfLen(n) : n \in 1..MaxIdLen}

InitSig ==
    /\ Init
    /\ config.clientSecret # NoSecret

Sign(sessionId, streamId) ==
    /\ ~crashed
    /\ ~generateSignatureThrows
    /\ LET st == [S EXCEPT !.out = <<[sock |-> Null,
                                      msg |-> SignalingHandshakeReq(sessionId, streamId,
                                                 generateSignature(sessionId, streamId))]>>]
       IN Commit(Bounds, st, Event("sign", Null, Null, sessionId, NoFrame, st))

NextSig == \E sessionId \in SigIds, streamId \in SigIds : Sign(sessionId, streamId)

SpecSig == InitSig /\ [][NextSig]_vars

----------------------------------------------------------------------------
(* Vocabulary of the properties *)

Conns == 1..Len(conns)
Socks == 1..Len(socks)

(* the entity is the one the registry holds under its session id *)
Registered(reg, cs, c) == reg[cs[c].sessionId] = c

(* the socket has been asked to close: close() was called on it while it   *)
(* was open, or the close is deferred to its open event                    *)
AskedToClose(sk, ws) ==
    \/ ws = Null
    \/ sk[ws].readyState \in {CLOSING, CLOSED}
    \/ sk[ws].onceOpenClose

IsTerminal(frame) ==
    frame.text = "object" /\ frame.msg_type = 8 /\ frame.state = 4 /\ frame.reason = 6

(* a cleanupConnection ran in the step: stop, shutdown or the terminal pair *)
TeardownStep(ev) ==
    \/ ev.op \in {"stop", "shutdown"}
    \/ ev.op = "message" /\ IsTerminal(ev.frame)

----------------------------------------------------------------------------
(* C1: a start for a session id that already has a registered entity       *)
(* allocates no second entity; the registry keeps the entity it held.      *)
C1_StartReusesEntity ==
    [][\A id \in AllSessionIds :
         (last'.op = "start" /\ last'.sessionId = id /\ activeConnections[id] # Null)
         => /\ activeConnections'[id] = activeConnections[id]
            /\ Len(conns') = Len(conns)]_vars

(* C2: once stop has run for an entity its shouldReconnect is false, and a *)
(* reconnection timer of that entity that fires afterwards, signaling or   *)
(* media, creates no socket, sends nothing and schedules nothing.          *)
C2_TimersAfterStopAreNoOps ==
    [][/\ \A id \in AllSessionIds :
            (last'.op = "stop" /\ last'.sessionId = id /\ activeConnections[id] # Null)
            => ~conns'[activeConnections[id]].shouldReconnect
       /\ (/\ last'.op \in {"signalingTimer", "mediaTimer"}
           /\ ~conns[last'.conn].shouldReconnect)
          => /\ socks' = socks
             /\ conns' = conns
             /\ last'.out = <<>>
             /\ Len(timers') = Len(timers) - 1]_vars

(* C3: when a media socket closes while shouldReconnect is true, either    *)
(* signaling is 'ready' with an open socket and only a media reconnect is  *)
(* scheduled (no socket is created), or the signaling connect path runs    *)
(* again for the same entity and no media reconnect is scheduled.          *)
C3_MediaCloseBranches ==
    [][\A s \in Socks :
         (/\ last'.op = "close" /\ last'.sock = s
          /\ socks[s].chan = "media"
          /\ conns[socks[s].conn].shouldReconnect)
         => LET c == socks[s].conn
                sg == conns[c].signaling.socket
            IN IF /\ conns[c].signaling.state = "ready"
                  /\ sg # Null
                  /\ socks[sg].readyState = OPEN
               THEN /\ Len(socks') = Len(socks)
                    /\ Len(timers') = Len(timers) + 1
                    /\ timers'[Len(timers')].kind = "media"
                    /\ timers'[Len(timers')].conn = c
                    /\ conns'[c].signaling = conns[c].signaling
               ELSE /\ Len(socks') = Len(socks) + 1
                    /\ socks'[Len(socks')].chan = "signaling"
                    /\ socks'[Len(socks')].conn = c
                    /\ socks'[Len(socks')].url = conns[c].serverUrls
                    /\ conns'[c].signaling.socket = Len(socks')
                    /\ Len(conns') = Len(conns)
                    /\ activeConnections' = activeConnections
                    /\ timers' = timers]_vars

C3_Witness ==
    /\ last.op = "close"
    /\ socks[last.sock].chan = "media"
    /\ conns[last.conn].shouldReconnect
    /\ conns[last.conn].signaling.socket = Len(socks)
    /\ conns[last.conn].signaling.socket > last.sock
    /\ conns[last.conn].signaling.state = "connecting"
    /\ timers = <<>>

(* C4: a media socket is never left open across a signaling failure: once  *)
(* the signaling socket it was opened under has closed and signaling is    *)
(* established again on a new socket, the media socket has been asked to   *)
(* close.                                                                  *)
C4_MediaTornDownOnSignalingFailure ==
    \A m \in Socks :
       (/\ socks[m].chan = "media"
        /\ socks[socks[m].signalingSocket].readyState = CLOSED
        /\ conns[socks[m].conn].signaling.socket # socks[m].signalingSocket
        /\ socks[conns[socks[m].conn].signaling.socket].readyState = OPEN)
       => AskedToClose(socks, m)

(* C5: a STREAM_STATE_CHANGED frame on a signaling socket whose session id *)
(* is registered: with state 4 and reason 6 the entry is removed, the      *)
(* entity's shouldReconnect is false and its two sockets are asked to      *)
(* close; with any other pair nothing changes.                             *)
C5_TerminalStreamState ==
    [][\A s \in Socks :
         (/\ last'.op = "message" /\ last'.sock = s
          /\ socks[s].chan = "signaling"
          /\ last'.frame.text = "object" /\ last'.frame.msg_type = 8
          /\ activeConnections[socks[s].sessionId] # Null)
         => LET id == socks[s].sessionId
                c == activeConnections[id]
            IN IF last'.frame.state = 4 /\ last'.frame.reason = 6
               THEN /\ activeConnections'[id] = Null
                    /\ ~conns'[c].shouldReconnect
                    /\ AskedToClose(socks', conns[c].signaling.socket)
                    /\ AskedToClose(socks', conns[c].media.socket)
               ELSE UNCHANGED <<activeConnections, conns, socks, timers>>]_vars

C5_Witness ==
    /\ last.op = "message"
    /\ IsTerminal(last.frame)
    /\ last.acted
    /\ activeConnections[last.sessionId] = Null
    /\ ~conns[last.conn].shouldReconnect
    /\ conns[last.conn].media.socket # Null
    /\ socks[conns[last.conn].media.socket].readyState = CLOSING
    /\ socks[conns[last.conn].signaling.socket].readyState = CLOSING

(* C6: every media socket connects to an endpoint that a status-0          *)
(* signaling handshake response of its entity carried before.              *)
C6_MediaAfterHandshake ==
    \A m \in Socks :
       socks[m].chan = "media" => socks[m].url \in hsSeen[socks[m].conn]

C6_Witness ==
    /\ last.op = "mediaTimer"
    /\ Len(socks) > 0
    /\ socks[Len(socks)].chan = "media"
    /\ socks[Len(socks)].conn = last.conn
    /\ socks[Len(socks)].url = MediaUrl2
    /\ conns[last.conn].media.socket = Len(socks)

(* C7: the first stop of a registered session id asks both sockets to      *)
(* close and deletes the entry; a stop of an absent id changes nothing;    *)
(* and an entity leaves the registry by no path other than the teardown.   *)
C7_RemovedOnlyByStop ==
    [][~crashed' =>
       /\ \A id \in AllSessionIds :
            (last'.op = "stop" /\ last'.sessionId = id)
            => IF activeConnections[id] # Null
               THEN LET c == activeConnections[id] IN
                    /\ activeConnections'[id] = Null
                    /\ AskedToClose(socks', conns[c].signaling.socket)
                    /\ AskedToClose(socks', conns[c].media.socket)
               ELSE UNCHANGED <<activeConnections, conns, socks, timers>>
       /\ \A c \in Conns :
            (Registered(activeConnections, conns, c) /\ ~Registered(activeConnections', conns', c))
            => TeardownStep(last')]_vars

(* C8: shouldReconnect is true when an entity is created and, once false,  *)
(* is false after every later step.                                        *)
C8_ShouldReconnectMonotone ==
    [][~crashed' =>
       /\ Len(conns') >= Len(conns)
       /\ \A c \in Conns : ~conns[c].shouldReconnect => ~conns'[c].shouldReconnect
       /\ \A c \in (Len(conns) + 1)..Len(conns') : conns'[c].shouldReconnect]_vars

C8_Witness ==
    /\ last.op = "mediaTimer"
    /\ last.acted
    /\ ~conns[last.conn].shouldReconnect
    /\ socks[Len(socks)].chan = "media"
    /\ socks[Len(socks)].conn = last.conn

(* C9: a KEEP_ALIVE_REQUEST on a signaling or media socket is answered by  *)
(* exactly one message, of type 13, on the same socket, with the request's *)
(* timestamp; sub-states, socket handles, shouldReconnect, sockets, timers *)
(* and the registry stay as they were.                                     *)
C9_KeepAliveEcho ==
    [][\A s \in Socks :
         (/\ last'.op = "message" /\ last'.sock = s
          /\ last'.frame.text = "object" /\ last'.frame.msg_type = 12)
         => /\ Len(last'.out) = 1
            /\ last'.out[1].sock = s
            /\ last'.out[1].msg.msg_type = 13
            /\ last'.out[1].msg.timestamp = last'.frame.timestamp
            /\ ~crashed'
            /\ UNCHANGED <<activeConnections, socks, timers>>
            /\ Len(conns') = Len(conns)
            /\ \A c \in Conns :
                  /\ conns'[c].shouldReconnect = conns[c].shouldReconnect
                  /\ conns'[c].signaling.state = conns[c].signaling.state
                  /\ conns'[c].signaling.socket = conns[c].signaling.socket
                  /\ conns'[c].media = conns[c].media]_vars

C9_Witness ==
    /\ last.op = "message"
    /\ last.frame.msg_type = 12
    /\ last.frame.timestamp = 2
    /\ socks[last.sock].chan = "media"
    /\ Len(last.out) = 1
    /\ last.out[1].msg.timestamp = 2

(* C10: a frame that is not JSON is discarded on either channel: registry, *)
(* entities, sockets and timers are unchanged, nothing is sent, and the    *)
(* socket goes on receiving.                                               *)
C10_MalformedDiscarded ==
    [][\A s \in Socks :
         (/\ last'.op = "message" /\ last'.sock = s
          /\ last'.frame.text = "malformed")
         => /\ UNCHANGED <<activeConnections, conns, socks, timers>>
            /\ last'.out = <<>>
            /\ ~crashed'
            /\ socks'[s].rx
            /\ socks'[s].readyState \in {OPEN, CLOSING}]_vars

C10_Witness ==
    /\ last.op = "message"
    /\ last.frame.text = "malformed"
    /\ socks[last.sock].chan = "signaling"
    /\ socks[last.sock].readyState = OPEN
    /\ conns[last.conn].signaling.state = "ready"
    /\ ~crashed

(* C11: no handler of a socket event lets an exception escape: whatever    *)
(* frame arrives and whether or not the secret is configured, the process  *)
(* goes on running.                                                        *)
C11_NoProcessFault == ~crashed

(* C12: a signaling connect with an absent address or one without ws       *)
(* scheme returns before anything is allocated: the registry, the          *)
(* entities (the one passed for reuse included), the sockets and the       *)
(* timers are as before and nothing is sent.  An absent address and one    *)
(* that does not begin with ws are turned down by the test; one that       *)
(* begins with ws and has no ws: scheme by the constructor.                *)
C12_InvalidUrlRejected ==
    \A u \in {NoUrl, BadUrl, WsxUrl}, c \in Conns \cup {Null},
       id \in SessionIds, t \in StreamIds :
       LET st == connectToSignalingWebSocket(S, id, t, u, c) IN
       /\ st.activeConnections = activeConnections
       /\ st.conns = conns
       /\ st.socks = socks
       /\ st.timers = timers
       /\ st.out = <<>>
       /\ u \in {NoUrl, BadUrl} => ~st.thrown

(* C13: with clientId and secret fixed, the signature of a pair            *)
(* (sessionId, streamId) is the same whenever it is computed, and two      *)
(* pairs that differ in a component give different messages                *)
(* clientId,sessionId,streamId, commas in the identifiers included.        *)
C13_SignatureInjective ==
    [][(last.op = "sign" /\ last'.op = "sign")
       => LET p == last.out[1].msg
              q == last'.out[1].msg
          IN /\ q.signature = generateSignature(q.session_id, q.rtms_stream_id)
             /\ (p.session_id = q.session_id /\ p.rtms_stream_id = q.rtms_stream_id)
                => p.signature = q.signature
             /\ (p.session_id # q.session_id \/ p.rtms_stream_id # q.rtms_stream_id)
                => signatureMessage(p.session_id, p.rtms_stream_id)
                   # signatureMessage(q.session_id, q.rtms_stream_id)]_vars

C12_Witness ==
    /\ last.op = "start"
    /\ ~last.acted
    /\ Len(conns) = 1
    /\ conns[1].shouldReconnect
    /\ conns[1].signaling.socket # Null
    /\ socks[conns[1].signaling.socket].readyState = OPEN

(* C14: when the open event of a socket fires while shouldReconnect of its *)
(* entity is false, the socket is closed, nothing is sent and the entity   *)
(* is untouched, so the sub-state of the channel is not 'authenticated';   *)
(* and a connecting socket leaves the connecting state only by its own     *)
(* open or error event, never by a close() of the program.                 *)
C14_OpenAfterTeardown ==
    [][/\ \A s \in Socks :
            (/\ last'.op = "open" /\ last'.sock = s
             /\ ~conns[socks[s].conn].shouldReconnect)
            => /\ ~crashed'
               /\ socks'[s].readyState = CLOSING
               /\ last'.out = <<>>
               /\ conns' = conns
               /\ conns'[socks[s].conn][socks[s].chan].state # "authenticated"
       /\ ~crashed' =>
            \A s \in Socks :
               (socks[s].readyState = CONNECTING /\ socks'[s].readyState # CONNECTING)
               => (last'.op \in {"open", "error"} /\ last'.sock = s)]_vars

C14_Witness ==
    /\ ~crashed
    /\ last.op = "open"
    /\ socks[last.sock].chan = "media"
    /\ ~conns[last.conn].shouldReconnect
    /\ ~socks[last.sock].onceOpenClose
    /\ socks[last.sock].readyState = CLOSING
    /\ conns[last.conn].media.state = "connecting"

(* a reconnection of signaling is scheduled for the entity *)
SignalingTimerPending(c) ==
    \E i \in 1..Len(timers) : timers[i].kind = "signaling" /\ timers[i].conn = c

(* C15: the close of a signaling socket while shouldReconnect is true      *)
(* schedules a signaling reconnect; when the timer fires with              *)
(* shouldReconnect still true, a new signaling socket is constructed for   *)
(* the same entity and the entity's endpoint, with no entity added and the *)
(* registry untouched; when it fires with shouldReconnect false nothing    *)
(* happens; every scheduled reconnect does fire while the process runs and *)
(* the model has room for another socket, close after close.               *)
C15_SignalingReconnects ==
    /\ [][/\ \A s \in Socks :
               (/\ ~crashed'
                /\ socks[s].chan = "signaling"
                /\ socks[s].readyState # CLOSED /\ socks'[s].readyState = CLOSED)
               => LET c == socks[s].conn IN
                  /\ conns'[c].signaling.state = "closed"
                  /\ Len(socks') = Len(socks)
                  /\ IF conns[c].shouldReconnect
                     THEN /\ Len(timers') = Len(timers) + 1
                          /\ timers'[Len(timers')].kind = "signaling"
                          /\ timers'[Len(timers')].conn = c
                     ELSE timers' = timers
          /\ last'.op = "signalingTimer"
             => LET c == last'.conn IN
                /\ ~crashed'
                /\ Len(timers') = Len(timers) - 1
                /\ Len(conns') = Len(conns)
                /\ activeConnections' = activeConnections
                /\ IF conns[c].shouldReconnect
                   THEN /\ Len(socks') = Len(socks) + 1
                        /\ socks'[Len(socks')].chan = "signaling"
                        /\ socks'[Len(socks')].conn = c
                        /\ socks'[Len(socks')].url = conns[c].serverUrls
                        /\ socks'[Len(socks')].readyState = CONNECTING
                        /\ conns'[c].signaling.socket = Len(socks')
                        /\ \A s \in Socks :
                              (socks[s].chan = "signaling" /\ socks[s].conn = c)
                              => socks[s].url = socks'[Len(socks')].url
                   ELSE /\ socks' = socks
                        /\ conns' = conns
                        /\ last'.out = <<>>]_vars
    /\ \A c \in 1..MaxConns :
          SignalingTimerPending(c)
          ~> (~SignalingTimerPending(c) \/ crashed \/ Len(socks) >= MaxSocks)

C15_Witness ==
    /\ last.op = "signalingTimer"
    /\ last.acted
    /\ Len(socks) = 3
    /\ \A s \in 1..3 : socks[s].chan = "signaling" /\ socks[s].conn = last.conn
    /\ socks[1].readyState = CLOSED
    /\ socks[2].readyState = CLOSED
    /\ socks[3].readyState = CONNECTING
    /\ conns[last.conn].shouldReconnect

(* C16: a HANDSHAKE_RESPONSE with a status other than 0, type 2 on a       *)
(* signaling socket or type 4 on a media socket, changes nothing: the      *)
(* sub-states stay as they were, no socket is created, nothing is sent     *)
(* (no subscription, no stream start, no second handshake) and no timer is *)
(* scheduled.                                                              *)
C16_FailedHandshakeIgnored ==
    [][\A s \in Socks :
         (/\ last'.op = "message" /\ last'.sock = s
          /\ last'.frame.text = "object"
          /\ last'.frame.status_code # 0
          /\ last'.frame.msg_type = (IF socks[s].chan = "signaling" THEN 2 ELSE 4))
         => /\ ~crashed'
            /\ UNCHANGED <<activeConnections, conns, socks, timers>>
            /\ last'.out = <<>>]_vars

C16_Witness ==
    /\ ~crashed
    /\ last.op = "message"
    /\ last.frame.msg_type = 4
    /\ last.frame.status_code = 1
    /\ socks[last.sock].chan = "media"
    /\ socks[last.sock].readyState = OPEN
    /\ conns[last.conn].media.state = "authenticated"
    /\ conns[last.conn].signaling.state = "ready"

(* C17: a HANDSHAKE_RESPONSE with status 0 on a media socket sends exactly *)
(* one stream-start request, with the stream id of the session, on the     *)
(* signaling socket that was passed to the media connect, and makes the    *)
(* media sub-state 'streaming'; that signaling socket is the one in the    *)
(* signaling handle of the entity and it is open when the request is sent. *)
C17_StreamStartOnCurrentSignaling ==
    [][\A s \in Socks :
         (/\ last'.op = "message" /\ last'.sock = s
          /\ socks[s].chan = "media"
          /\ last'.frame.text = "object"
          /\ last'.frame.msg_type = 4
          /\ last'.frame.status_code = 0)
         => LET c == socks[s].conn
                sg == socks[s].signalingSocket
            IN /\ ~crashed'
               /\ Len(last'.out) = 1
               /\ last'.out[1].msg = StreamStartReq(socks[s].streamId)
               /\ last'.out[1].sock = sg
               /\ conns'[c].media.state = "streaming"
               /\ conns[c].signaling.socket = sg
               /\ socks[sg].readyState = OPEN]_vars

(* the sockets of a channel of an entity that are connecting or open *)
LiveSocks(c, chan) ==
    {s \in Socks : /\ socks[s].conn = c
                   /\ socks[s].chan = chan
                   /\ socks[s].readyState \in {CONNECTING, OPEN}}

(* C18: at every moment an entity has at most one signaling socket and at  *)
(* most one media socket that is connecting or open.                       *)
C18_OneLiveSocketPerChannel ==
    \A c \in Conns : \A chan \in {"signaling", "media"} :
       Cardinality(LiveSocks(c, chan)) <= 1

(* the socket in the handle of the channel is open *)
HandleOpen(cs, sk, c, chan) ==
    /\ cs[c][chan].socket # Null
    /\ sk[cs[c][chan].socket].readyState = OPEN

(* C19: after every step, a signaling sub-state 'ready' goes with an open  *)
(* socket in the signaling handle and a media sub-state 'streaming' with   *)
(* an open socket in the media handle; and a message, close or error event *)
(* of a socket that is not the one in the handle of its channel leaves the *)
(* sub-state of that channel as it was.                                    *)
C19_SubStateDescribesHandle ==
    [][~crashed' =>
       /\ \A c \in 1..Len(conns') :
            /\ conns'[c].signaling.state = "ready" => HandleOpen(conns', socks', c, "signaling")
            /\ conns'[c].media.state = "streaming" => HandleOpen(conns', socks', c, "media")
       /\ \A s \in Socks :
            (/\ last'.op \in {"message", "close", "error"} /\ last'.sock = s
             /\ conns[socks[s].conn][socks[s].chan].socket # s)
            => conns'[socks[s].conn][socks[s].chan].state
               = conns[socks[s].conn][socks[s].chan].state]_vars

(* C20: whenever a media socket is constructed, by a signaling handshake   *)
(* response or by the media reconnect timer, the signaling sub-state of    *)
(* its entity is 'ready' and the socket in the signaling handle is open.   *)
C20_MediaCreatedUnderReadySignaling ==
    [][~crashed' =>
       \A m \in (Len(socks) + 1)..Len(socks') :
          socks'[m].chan = "media"
          => /\ conns'[socks'[m].conn].signaling.state = "ready"
             /\ HandleOpen(conns', socks', socks'[m].conn, "signaling")]_vars

(* the entity has been stopped *)
Stopped(c) == c <= Len(conns) /\ ~conns[c].shouldReconnect

(* every socket ever constructed for the entity is closed and no timer of  *)
(* the entity is pending                                                   *)
Quiescent(c) ==
    /\ \A s \in Socks : socks[s].conn = c => socks[s].readyState = CLOSED
    /\ \A i \in 1..Len(timers) : timers[i].conn # c

(* C21: once an entity has been stopped, and with every pending open and   *)
(* every begun close completing, the entity becomes quiescent and stays    *)
(* so (while the process runs and the model has room for another socket):  *)
(* all sockets constructed for it are closed, none of its timers is        *)
(* pending, and no socket is constructed for it any more.                  *)
C21_QuiescentAfterStop ==
    \A c \in 1..MaxConns :
       Stopped(c) ~> [](crashed \/ Len(socks) >= QuietMaxSocks \/ Quiescent(c))

====
